---- MODULE Spec2Model ----
(***************************************************************************)
(* Model of the refresh engine of the trading dashboard (src/src/main.rs): *)
(* the run loop of main, the quote wave (fetch_all_stock_data), the        *)
(* trigger evaluation and news requests (fetch_relevant_news), the         *)
(* indicator wave (fetch_all_technical_data, fetch_technical_indicators),  *)
(* the draw of the frame and the poll for the quit key.                    *)
(***************************************************************************)
EXTENDS Integers, Sequences, FiniteSets, TLC

(***************************************************************************)
(* Bounds of the model.                                                    *)
(***************************************************************************)
\* The run loop is followed for this many cycles (cycle_count is a usize
\* that the code never resets).
MaxCycles == 20
\* At most this many input events wait unread in the terminal's event queue.
MaxPending == 2

(***************************************************************************)
(* Program constants.                                                      *)
(***************************************************************************)
\* const TECH_UPDATE_INTERVAL: usize = 10;
TECH_UPDATE_INTERVAL == 10
\* The tracked instruments: the first two entries of STOCK_SYMBOLS, in the
\* order of the list.
STOCK_SYMBOLS == <<"AAPL", "EUR/USD">>

(***************************************************************************)
(* f64 arithmetic of the trigger:                                          *)
(*     ((latest_price - previous_price) / previous_price) * 100.0 > 7.0    *)
(* A positive double is [e, m]: m its significand, a natural number of     *)
(* exactly 53 bits, and e the exponent of its least significant bit: the   *)
(* value is m * 2^e.  Division and product round to nearest, ties to even, *)
(* as IEEE 754 binary64 does.  Naturals wider than a machine integer are   *)
(* sequences of limbs in base 2^11, least significant first, without       *)
(* leading zero limbs.  The closes are integers below 2^15, which f64      *)
(* holds exactly, so the subtraction is exact and neither overflow nor     *)
(* subnormals occur.                                                       *)
(***************************************************************************)
F64_MANTISSA_DIGITS == 53
LimbBits == 11
LimbBase == 2048

RECURSIVE Pow2(_)
Pow2(n) == IF n = 0 THEN 1 ELSE 2 * Pow2(n - 1)

\* The number of bits of a natural below LimbBase * 2^15.
RECURSIVE BitLen(_)
BitLen(n) == IF n = 0 THEN 0 ELSE 1 + BitLen(n \div 2)

\* A limb sequence without its leading (most significant) zero limbs.
RECURSIVE BigTrim(_)
BigTrim(x) ==
    IF x # <<>> /\ x[Len(x)] = 0 THEN BigTrim(SubSeq(x, 1, Len(x) - 1)) ELSE x

\* The limbs of a machine natural.
RECURSIVE BigOfInt(_)
BigOfInt(n) == IF n = 0 THEN <<>> ELSE <<n % LimbBase>> \o BigOfInt(n \div LimbBase)

\* x * c + carry for a natural c below 2^15.
RECURSIVE BigMulSmall(_, _, _)
BigMulSmall(x, c, carry) ==
    IF x = <<>> THEN BigOfInt(carry)
    ELSE LET t == x[1] * c + carry
         IN  <<t % LimbBase>> \o BigMulSmall(Tail(x), c, t \div LimbBase)

\* floor(x / c) and x mod c for 0 < c < 2^15: [q, r].  The quotient keeps
\* x's limb count until trimmed.
RECURSIVE BigDivLimbs(_, _, _)
BigDivLimbs(x, c, r) ==
    IF x = <<>> THEN [q |-> <<>>, r |-> r]
    ELSE LET t    == r * LimbBase + x[Len(x)]
             rest == BigDivLimbs(SubSeq(x, 1, Len(x) - 1), c, t % c)
         IN  [q |-> Append(rest.q, t \div c), r |-> rest.r]

BigDivSmall(x, c) ==
    LET d == BigDivLimbs(x, c, 0) IN [q |-> BigTrim(d.q), r |-> d.r]

BigBitLen(x) ==
    IF x = <<>> THEN 0 ELSE LimbBits * (Len(x) - 1) + BitLen(x[Len(x)])

\* x * 2^n.
BigShl(x, n) ==
    IF x = <<>> THEN <<>>
    ELSE [i \in 1..(n \div LimbBits) |-> 0] \o BigMulSmall(x, Pow2(n % LimbBits), 0)

\* floor(x / 2^n), and whether a nonzero bit was shifted out: [q, lost].
BigShr(x, n) ==
    LET a    == n \div LimbBits
        low  == SubSeq(x, 1, IF a < Len(x) THEN a ELSE Len(x))
        high == SubSeq(x, a + 1, Len(x))
        d    == BigDivSmall(high, Pow2(n % LimbBits))
    IN  [q |-> d.q, lost |-> d.r # 0 \/ (\E i \in 1..Len(low) : low[i] # 0)]

\* x + 1.
RECURSIVE BigInc(_)
BigInc(x) ==
    IF x = <<>> THEN <<1>>
    ELSE IF x[1] + 1 < LimbBase THEN <<x[1] + 1>> \o Tail(x)
    ELSE <<0>> \o BigInc(Tail(x))

BigOdd(x) == x # <<>> /\ x[1] % 2 = 1

\* x > y on limb sequences without leading zero limbs.
RECURSIVE BigGt(_, _)
BigGt(x, y) ==
    IF Len(x) # Len(y) THEN Len(x) > Len(y)
    ELSE IF x = <<>> THEN FALSE
    ELSE IF x[Len(x)] # y[Len(y)] THEN x[Len(x)] > y[Len(y)]
    ELSE BigGt(SubSeq(x, 1, Len(x) - 1), SubSeq(y, 1, Len(y) - 1))

\* Round the exact positive value x * 2^e (plus a nonzero fraction of the
\* last bit when sticky) to 53 significand bits, to nearest, ties to even.
RoundF64(x, e, sticky) ==
    LET n == BigBitLen(x)
        P == F64_MANTISSA_DIGITS
    IN  IF n <= P
        THEN [e |-> e - (P - n), m |-> BigShl(x, P - n)]
        ELSE LET g    == BigShr(x, n - P - 1)
                 kept == BigShr(g.q, 1).q
                 up   == BigOdd(g.q) /\ (g.lost \/ sticky \/ BigOdd(kept))
                 inc  == BigInc(kept)
             IN  IF ~up THEN [e |-> e + (n - P), m |-> kept]
                 ELSE IF BigBitLen(inc) = P THEN [e |-> e + (n - P), m |-> inc]
                 ELSE [e |-> e + (n - P) + 1, m |-> BigShr(inc, 1).q]

\* The f64 quotient d / p of two positive integers below 2^15: the exact
\* quotient is carried to 70 fractional bits before it is rounded.
DivScale == 70

FDiv(d, p) ==
    LET q == BigDivSmall(BigShl(BigOfInt(d), DivScale), p)
    IN  RoundF64(q.q, -DivScale, q.r # 0)

\* The f64 product x * c of a positive double and a positive integer below
\* 2^15.
FMulInt(x, c) == RoundF64(BigMulSmall(x.m, c, 0), x.e, FALSE)

\* The double of a positive integer.
FInt(n) == RoundF64(BigOfInt(n), 0, FALSE)

\* x > y on positive doubles: both significands have 53 bits, so the
\* exponent decides, then the significand.
FGt(x, y) == x.e > y.e \/ (x.e = y.e /\ BigGt(x.m, y.m))


(***************************************************************************)
(* Provider responses.  A close is the decimal string of an integer, or is *)
(* missing (no string at that key, or a string that does not parse).       *)
(***************************************************************************)
Pt(c) == [parsed |-> TRUE, close |-> c]
NoClose == [parsed |-> FALSE, close |-> 0]

\* The body of a time_series response: "values" is an array of points,
\* newest first, or is no array (an error body of the provider).
Series(pts) == [is_array |-> TRUE, values |-> pts]
NoValues == [is_array |-> FALSE, values |-> <<>>]

\* Result<Value> of one round trip: Err when send() or json() fails.
Ok(json) == [ok |-> TRUE, json |-> json]
Err == [ok |-> FALSE, json |-> NoValues]

\* The quote responses the provider gives in the run loop's model: a
\* transport failure, a rise of 10%, of exactly 7% and of 4%. (Shorter
\* series, other closes and bodies without values are the inputs of
\* TriggerSpec.)
QuoteResponses ==
    { Err,
      Ok(Series(<<Pt(110), Pt(100)>>)),
      Ok(Series(<<Pt(107), Pt(100)>>)),
      Ok(Series(<<Pt(104), Pt(100)>>)) }

\* The body of a news response ("data": the articles' titles).
NewsResponses == { Err, Ok([is_array |-> TRUE, values |-> <<"headline">>]) }

\* One field of the newest element of an indicator response: no string at
\* the key, a string that is no number, or the decimal string of a number.
FieldMissing == [kind |-> "missing", num |-> 0]
FieldText == [kind |-> "text", num |-> 0]
FieldNumber(n) == [kind |-> "number", num |-> n]

\* The body of a technical_indicator response: whether "values" is an array
\* with a first element, and that element's fields (one for sma, rsi and
\* macd; real_upper_band, real_middle_band, real_lower_band for bbands).
IndicatorJson(fields) == [has_latest |-> TRUE, fields |-> fields]
NoLatest == [has_latest |-> FALSE, fields |-> <<>>]
IndOk(json) == [ok |-> TRUE, json |-> json]
IndErr == [ok |-> FALSE, json |-> NoLatest]

IndicatorResponses == { IndErr, IndOk(IndicatorJson(<<FieldNumber(50)>>)) }
BbandsResponses ==
    { IndErr,
      IndOk(IndicatorJson(<<FieldNumber(60), FieldNumber(50), FieldNumber(40)>>)) }

\* Input events of the terminal: the key 'q', another key, an event that is
\* no key press (mouse, resize).
KeyQ == "Key(q)"
InputEvents == { KeyQ, "Key(x)", "Mouse" }

(***************************************************************************)
(* State.                                                                  *)
(***************************************************************************)
VARIABLES
    pc,              \* position of main in its loop
    symbols,         \* main: symbols
    cycle_count,     \* main: cycle_count
    technical_data,  \* main: technical_data
    stock_data,      \* main: stock_data of the cycle under way
    news_data,       \* main: news_data of the cycle under way
    quote_tasks,     \* fetch_all_stock_data: the futures given to join_all
    news_i,          \* fetch_relevant_news: position of the for loop
    news_results,    \* fetch_relevant_news: news_results
    tech_tasks,      \* fetch_all_technical_data: the futures given to join_all
    inflight,        \* requests sent to a provider and not yet answered
    events,          \* the terminal's queue of unread input events
    snapshot,        \* the frame handed to terminal.draw in this cycle
    published_indicators, \* history: the indicator map of the last frame drawn
    tech_updates,    \* history: how often technical_data was assigned
    draws,           \* history: how many frames were drawn
    polled_cycle,    \* history: the last cycle whose quit check has run
    received         \* history: the responses given in the cycle under way

vars == <<pc, symbols, cycle_count, technical_data, stock_data, news_data,
          quote_tasks, news_i, news_results, tech_tasks, inflight, events,
          snapshot, published_indicators, tech_updates, draws, polled_cycle,
          received>>

Indices == 1..Len(STOCK_SYMBOLS)

\* The sub-indicator calls of fetch_technical_indicators, in their order.
SubIndicators ==
    << [indicator |-> "sma",    time_period |-> 50],
       [indicator |-> "sma",    time_period |-> 200],
       [indicator |-> "rsi",    time_period |-> 14],
       [indicator |-> "macd",   time_period |-> 12],
       [indicator |-> "bbands", time_period |-> 20] >>

NumSubIndicators == Len(SubIndicators)

\* Requests on the wire.
QuoteReq(symbol, cycle) ==
    [kind |-> "quote", symbol |-> symbol, sub |-> 0, cycle |-> cycle]
NewsReq(symbol, cycle) ==
    [kind |-> "news", symbol |-> symbol, sub |-> 0, cycle |-> cycle]
TechReq(symbol, k, cycle) ==
    [kind |-> "indicator", symbol |-> symbol, sub |-> k, cycle |-> cycle]

\* A response given to a request.
Answer(req, r) == [req |-> req, resp |-> r]

\* A future of a wave: not yet polled, waiting for its response, or done.
IdleTask == [settled |-> FALSE, result |-> Err]
DoneTask(r) == [settled |-> TRUE, result |-> r]

\* A future of fetch_technical_indicators: the call it is waiting for
\* (NumSubIndicators + 1 once it has returned), whether it returned Err, and
\* the values its calls have returned so far.
TechTask(step, failed, vals) == [step |-> step, failed |-> failed, vals |-> vals]
IdleTech == TechTask(NumSubIndicators + 1, TRUE, <<>>)

NoSnapshot == [cycle |-> 0, quotes |-> <<>>, news |-> <<>>, indicators |-> <<>>]

Init ==
    /\ pc = "Waiting"
    /\ symbols = STOCK_SYMBOLS
    /\ cycle_count = 0
    /\ technical_data = <<>>
    /\ stock_data = <<>>
    /\ news_data = <<>>
    /\ quote_tasks = [i \in Indices |-> IdleTask]
    /\ news_i = 1
    /\ news_results = <<>>
    /\ tech_tasks = [i \in Indices |-> IdleTech]
    /\ inflight = {}
    /\ events = <<>>
    /\ snapshot = NoSnapshot
    /\ published_indicators = <<>>
    /\ tech_updates = 0
    /\ draws = 0
    /\ polled_cycle = 0
    /\ received = {}

(***************************************************************************)
(* fetch_relevant_news: the trigger.                                       *)
(***************************************************************************)
\* point["close"].as_str().unwrap_or("0").parse().unwrap_or(0.0)
ParseClose(pt) == IF pt.parsed THEN pt.close ELSE 0

Abs(n) == IF n < 0 THEN -n ELSE n

\* ((latest_price - previous_price) / previous_price) * 100.0 > 7.0 in f64.
\* A zero previous_price gives +inf, -inf or NaN, of which only +inf
\* exceeds 7.0; a quotient that is zero or negative does not.
PercentChangeExceeds(latest_price, previous_price) ==
    LET d == latest_price - previous_price
    IN  IF previous_price = 0 THEN d > 0
        ELSE IF d = 0 \/ (d > 0) # (previous_price > 0) THEN FALSE
        ELSE FGt(FMulInt(FDiv(Abs(d), Abs(previous_price)), 100), FInt(7))

\* The closes that occur in the quote responses of the model, and the
\* outcome of the test for each pair of them, computed once.
Closes == { -5, 0, 100, 104, 107, 110 }
PercentChangeTable ==
    [latest_price \in Closes, previous_price \in Closes |->
        PercentChangeExceeds(latest_price, previous_price)]

\* Evaluates with the guard on the wrong price: latest_price > 0.0.
EvaluatesGuardsLatest(data) ==
    /\ data.is_array
    /\ Len(data.values) > 1
    /\ ParseClose(data.values[1]) > 0

\* Whether the series has the two points and the positive previous close
\* that the percent change is computed from.
Evaluates(data) ==
    /\ data.is_array
    /\ Len(data.values) > 1
    /\ ParseClose(data.values[2]) > 0

\* Whether fetch_relevant_news requests the news of an instrument with this
\* quote response.
TriggerFlags(data) ==
    /\ Evaluates(data)
    /\ PercentChangeTable[ParseClose(data.values[1]), ParseClose(data.values[2])]

(***************************************************************************)
(* join_all(...).await.into_iter().filter_map(|data| data).collect()       *)
(***************************************************************************)
\* WaveComplete as a select would have it: ready when one future is.
WaveCompleteAny(tasks) == \E i \in DOMAIN tasks : tasks[i].settled

\* join_all is ready when every future is.
WaveComplete(tasks) == \A i \in DOMAIN tasks : tasks[i].settled

\* OkPositions in the reverse of the order of the symbols.
OkPositionsReversed(tasks) ==
    SelectSeq([i \in 1..Len(STOCK_SYMBOLS) |-> Len(STOCK_SYMBOLS) + 1 - i],
              LAMBDA i : tasks[i].settled /\ tasks[i].result.ok)

\* The positions, in the order of the symbols, of the futures that
\* returned Some.
OkPositions(tasks) ==
    SelectSeq([i \in 1..Len(STOCK_SYMBOLS) |-> i],
              LAMBDA i : tasks[i].settled /\ tasks[i].result.ok)

\* CollectQuotes that stops at the first future that returned None.
CollectQuotesUntilFailure(syms, tasks) ==
    LET bad   == { i \in 1..Len(syms) : ~(tasks[i].settled /\ tasks[i].result.ok) }
        first == IF bad = {} THEN Len(syms) + 1
                 ELSE CHOOSE i \in bad : \A j \in bad : i <= j
    IN  [k \in 1..(first - 1) |->
            [symbol |-> syms[k], data |-> tasks[k].result.json]]

\* fetch_all_stock_data's result.
CollectQuotes(syms, tasks) ==
    LET idx == OkPositions(tasks)
    IN  [k \in 1..Len(idx) |->
            [symbol |-> syms[idx[k]], data |-> tasks[idx[k]].result.json]]

\* LaunchQuoteWave of a loop that awaits each fetch in turn: only the first
\* symbol's request is sent.
LaunchQuoteWaveFirstOnly(syms, cycle) == { QuoteReq(syms[1], cycle) }

\* The quote requests of a wave: join_all polls every future once, and
\* each sends its request, before it waits for any.
LaunchQuoteWave(syms, cycle) == { QuoteReq(syms[i], cycle) : i \in 1..Len(syms) }

(***************************************************************************)
(* The indicator wave.                                                     *)
(***************************************************************************)
\* IsRefreshCycle on the counter before its increment.
IsRefreshCycleOffByOne(cycle) == (cycle - 1) % TECH_UPDATE_INTERVAL = 0

\* IsRefreshCycle that also refreshes in the first cycle.
IsRefreshCycleOrFirst(cycle) == cycle = 1 \/ cycle % TECH_UPDATE_INTERVAL = 0

\* if cycle_count % TECH_UPDATE_INTERVAL == 0
IsRefreshCycle(cycle) == cycle % TECH_UPDATE_INTERVAL = 0

\* fetch_indicator_value's Option<f64>, <<>> for None: the field's string
\* parsed, 0.0 when it does not parse.
IndicatorValue(json) ==
    IF json.has_latest /\ json.fields[1].kind # "missing"
    THEN << IF json.fields[1].kind = "number" THEN json.fields[1].num ELSE 0 >>
    ELSE <<>>

\* One band of fetch_bbands: as_str().and_then(|s| s.parse().ok()).
BandValue(json, j) ==
    IF json.has_latest /\ json.fields[j].kind = "number"
    THEN << json.fields[j].num >>
    ELSE <<>>

\* What call k of fetch_technical_indicators adds to the values so far.
SubValues(k, json) ==
    IF SubIndicators[k].indicator = "bbands"
    THEN << BandValue(json, 1), BandValue(json, 2), BandValue(json, 3) >>
    ELSE << IndicatorValue(json) >>

\* The responses the provider gives to call k (none once the future is done).
SubResponses(k) ==
    IF k > NumSubIndicators THEN {}
    ELSE IF SubIndicators[k].indicator = "bbands" THEN BbandsResponses
    ELSE IndicatorResponses

\* Ok(TechnicalIndicators { .. })
TechnicalIndicators(vals) ==
    [sma50 |-> vals[1], sma200 |-> vals[2], rsi |-> vals[3], macd |-> vals[4],
     bb_upper |-> vals[5], bb_middle |-> vals[6], bb_lower |-> vals[7]]

TechDone(task) == task.step > NumSubIndicators

\* TechWaveComplete as a select would have it.
TechWaveCompleteAny(tasks) == \E i \in DOMAIN tasks : TechDone(tasks[i])

TechWaveComplete(tasks) == \A i \in DOMAIN tasks : TechDone(tasks[i])

TechOkPositions(tasks) ==
    SelectSeq([i \in 1..Len(STOCK_SYMBOLS) |-> i],
              LAMBDA i : TechDone(tasks[i]) /\ ~tasks[i].failed)

\* fetch_all_technical_data's result.
CollectIndicators(syms, tasks) ==
    LET idx == TechOkPositions(tasks)
    IN  [k \in 1..Len(idx) |->
            [symbol |-> syms[idx[k]],
             indicators |-> TechnicalIndicators(tasks[idx[k]].vals)]]

\* RefreshedIndicators that keeps the old entry of a symbol the wave
\* returned nothing for.
RefreshedIndicatorsMerging(old, syms, tasks) ==
    LET new  == CollectIndicators(syms, tasks)
        kept == SelectSeq(old, LAMBDA e : \A k \in DOMAIN new : new[k].symbol # e.symbol)
    IN  new \o kept

\* main's assignment on a refresh cycle.
RefreshedIndicators(old, syms, tasks) == CollectIndicators(syms, tasks)

\* The first poll of the wave: every future sends its first request.
LaunchIndicatorWave(syms, cycle) == { TechReq(syms[i], 1, cycle) : i \in 1..Len(syms) }

(***************************************************************************)
(* The run loop of main.                                                   *)
(***************************************************************************)
\* The end of the loop body, by falling through, break or ?: the locals of
\* the cycle, the futures of its waves and the frame that borrowed them are
\* dropped.
DropCycleLocals ==
    /\ stock_data' = <<>>
    /\ news_data' = <<>>
    /\ quote_tasks' = [i \in Indices |-> IdleTask]
    /\ news_i' = 1
    /\ news_results' = <<>>
    /\ tech_tasks' = [i \in Indices |-> IdleTech]
    /\ snapshot' = NoSnapshot
    /\ received' = {}

\* main returns Err(e) out of the loop: technical_data is dropped too.
Abort ==
    /\ pc' = "Aborted"
    /\ DropCycleLocals
    /\ technical_data' = <<>>
    /\ UNCHANGED <<symbols, cycle_count, inflight, events,
                   published_indicators, tech_updates, draws, polled_cycle>>

\* interval.tick().await; cycle_count += 1; fetch_all_stock_data is called
\* and join_all sends the quote request of every symbol.
Tick ==
    /\ pc = "Waiting"
    /\ cycle_count < MaxCycles
    /\ cycle_count' = cycle_count + 1
    /\ quote_tasks' = [i \in Indices |-> IdleTask]
    /\ inflight' = inflight \cup LaunchQuoteWave(symbols, cycle_count + 1)
    /\ pc' = "FetchingQuotes"
    /\ UNCHANGED <<symbols, technical_data, stock_data, news_data, news_i,
                   news_results, tech_tasks, events, snapshot,
                   published_indicators, tech_updates, draws, polled_cycle,
                   received>>

\* QuoteSettles with the error propagated by ? instead of logged.
QuoteSettlesPropagating(i, r) ==
    /\ pc = "FetchingQuotes"
    /\ QuoteReq(symbols[i], cycle_count) \in inflight
    /\ IF r.ok
       THEN /\ inflight' = inflight \ { QuoteReq(symbols[i], cycle_count) }
            /\ quote_tasks' = [quote_tasks EXCEPT ![i] = DoneTask(r)]
            /\ received' = received \cup { Answer(QuoteReq(symbols[i], cycle_count), r) }
            /\ UNCHANGED <<pc, symbols, cycle_count, technical_data, stock_data,
                           news_data, news_i, news_results, tech_tasks, events,
                           snapshot, published_indicators, tech_updates, draws,
                           polled_cycle>>
       ELSE Abort

\* QuoteSettles of a wave that races its futures: a response that arrives
\* after another symbol's quotes are in is discarded.
QuoteSettlesRacing(i, r) ==
    /\ pc = "FetchingQuotes"
    /\ QuoteReq(symbols[i], cycle_count) \in inflight
    /\ inflight' = inflight \ { QuoteReq(symbols[i], cycle_count) }
    /\ quote_tasks' = [quote_tasks EXCEPT ![i] =
          DoneTask(IF \E j \in Indices : quote_tasks[j].settled /\ quote_tasks[j].result.ok
                   THEN Err ELSE r)]
    /\ received' = received \cup { Answer(QuoteReq(symbols[i], cycle_count), r) }
    /\ UNCHANGED <<pc, symbols, cycle_count, technical_data, stock_data,
                   news_data, news_i, news_results, tech_tasks, events,
                   snapshot, published_indicators, tech_updates, draws, polled_cycle>>

\* fetch_stock_data returns for symbol i: Err (logged, None) or Ok(json).
QuoteSettles(i, r) ==
    /\ pc = "FetchingQuotes"
    /\ QuoteReq(symbols[i], cycle_count) \in inflight
    /\ inflight' = inflight \ { QuoteReq(symbols[i], cycle_count) }
    /\ quote_tasks' = [quote_tasks EXCEPT ![i] = DoneTask(r)]
    /\ received' = received \cup { Answer(QuoteReq(symbols[i], cycle_count), r) }
    /\ UNCHANGED <<pc, symbols, cycle_count, technical_data, stock_data,
                   news_data, news_i, news_results, tech_tasks, events,
                   snapshot, published_indicators, tech_updates, draws, polled_cycle>>

\* join_all is ready: fetch_all_stock_data returns the quotes collected and
\* fetch_relevant_news starts.
QuotesJoined ==
    /\ pc = "FetchingQuotes"
    /\ WaveComplete(quote_tasks)
    /\ stock_data' = CollectQuotes(symbols, quote_tasks)
    /\ news_i' = 1
    /\ news_results' = <<>>
    /\ pc' = "EvaluatingTriggers"
    /\ UNCHANGED <<symbols, cycle_count, technical_data, news_data,
                   quote_tasks, tech_tasks, inflight, events, snapshot,
                   published_indicators, tech_updates, draws, polled_cycle,
                   received>>

\* One turn of the for loop of fetch_relevant_news: the news request is sent
\* when the trigger flags the entry, and the loop goes on otherwise.
EvaluateTrigger ==
    /\ pc = "EvaluatingTriggers"
    /\ news_i <= Len(stock_data)
    /\ IF TriggerFlags(stock_data[news_i].data)
       THEN /\ inflight' = inflight \cup { NewsReq(stock_data[news_i].symbol, cycle_count) }
            /\ pc' = "FetchingNews"
            /\ UNCHANGED news_i
       ELSE /\ news_i' = news_i + 1
            /\ UNCHANGED <<inflight, pc>>
    /\ UNCHANGED <<symbols, cycle_count, technical_data, stock_data, news_data,
                   quote_tasks, news_results, tech_tasks, events, snapshot,
                   published_indicators, tech_updates, draws, polled_cycle,
                   received>>

\* NewsSettles that, after a failure, goes on waiting for a response
\* without sending the request again.
NewsSettlesStalling(r) ==
    /\ pc = "FetchingNews"
    /\ NewsReq(stock_data[news_i].symbol, cycle_count) \in inflight
    /\ inflight' = inflight \ { NewsReq(stock_data[news_i].symbol, cycle_count) }
    /\ received' = received \cup { Answer(NewsReq(stock_data[news_i].symbol, cycle_count), r) }
    /\ IF r.ok
       THEN /\ news_results' =
                  Append(news_results, [symbol |-> stock_data[news_i].symbol, news |-> r.json])
            /\ news_i' = news_i + 1
            /\ pc' = "EvaluatingTriggers"
       ELSE UNCHANGED <<news_results, news_i, pc>>
    /\ UNCHANGED <<symbols, cycle_count, technical_data, stock_data, news_data,
                   quote_tasks, tech_tasks, events, snapshot,
                   published_indicators, tech_updates, draws, polled_cycle>>

\* fetch_stock_news returns: Ok(news) is pushed, Err is dropped.
NewsSettles(r) ==
    /\ pc = "FetchingNews"
    /\ NewsReq(stock_data[news_i].symbol, cycle_count) \in inflight
    /\ inflight' = inflight \ { NewsReq(stock_data[news_i].symbol, cycle_count) }
    /\ news_results' =
          IF r.ok
          THEN Append(news_results, [symbol |-> stock_data[news_i].symbol, news |-> r.json])
          ELSE news_results
    /\ news_i' = news_i + 1
    /\ received' = received \cup { Answer(NewsReq(stock_data[news_i].symbol, cycle_count), r) }
    /\ pc' = "EvaluatingTriggers"
    /\ UNCHANGED <<symbols, cycle_count, technical_data, stock_data, news_data,
                   quote_tasks, tech_tasks, events, snapshot,
                   published_indicators, tech_updates, draws, polled_cycle>>

\* fetch_relevant_news returns; on a refresh cycle fetch_all_technical_data
\* is called and join_all sends the first request of every symbol.
NewsReturns ==
    /\ pc = "EvaluatingTriggers"
    /\ news_i > Len(stock_data)
    /\ news_data' = news_results
    /\ IF IsRefreshCycle(cycle_count)
       THEN /\ tech_tasks' = [i \in Indices |-> TechTask(1, FALSE, <<>>)]
            /\ inflight' = inflight \cup LaunchIndicatorWave(symbols, cycle_count)
            /\ pc' = "RefreshingIndicators"
       ELSE /\ pc' = "Assembling"
            /\ UNCHANGED <<tech_tasks, inflight>>
    /\ UNCHANGED <<symbols, cycle_count, technical_data, stock_data,
                   quote_tasks, news_i, news_results, events, snapshot,
                   published_indicators, tech_updates, draws, polled_cycle,
                   received>>

\* The call that future i of the indicator wave waits for returns: on Err
\* the ? makes fetch_technical_indicators return Err (logged, None); on Ok
\* the value is kept and the next call's request is sent, or, after the
\* last call, the future returns Some.
IndicatorSettles(i, r) ==
    LET task == tech_tasks[i]
        k    == task.step
        req  == TechReq(symbols[i], k, cycle_count)
    IN  /\ pc = "RefreshingIndicators"
        /\ ~TechDone(task)
        /\ req \in inflight
        /\ IF ~r.ok
           THEN /\ tech_tasks' = [tech_tasks EXCEPT
                      ![i] = TechTask(NumSubIndicators + 1, TRUE, <<>>)]
                /\ inflight' = inflight \ {req}
           ELSE /\ tech_tasks' = [tech_tasks EXCEPT
                      ![i] = TechTask(k + 1, FALSE, task.vals \o SubValues(k, r.json))]
                /\ inflight' = (inflight \ {req}) \cup
                      (IF k < NumSubIndicators
                       THEN { TechReq(symbols[i], k + 1, cycle_count) } ELSE {})
        /\ received' = received \cup { Answer(req, r) }
        /\ UNCHANGED <<pc, symbols, cycle_count, technical_data, stock_data,
                       news_data, quote_tasks, news_i, news_results, events,
                       snapshot, published_indicators, tech_updates, draws, polled_cycle>>

\* join_all is ready: technical_data = fetch_all_technical_data(..).await
IndicatorsJoined ==
    /\ pc = "RefreshingIndicators"
    /\ TechWaveComplete(tech_tasks)
    /\ technical_data' = RefreshedIndicators(technical_data, symbols, tech_tasks)
    /\ tech_updates' = tech_updates + 1
    /\ pc' = "Assembling"
    /\ UNCHANGED <<symbols, cycle_count, stock_data, news_data, quote_tasks,
                   news_i, news_results, tech_tasks, inflight, events,
                   snapshot, published_indicators, draws, polled_cycle,
                   received>>

\* Draw that hands over no frame when the cycle has no quotes.
DrawSkippedWhenEmpty ==
    /\ pc = "Assembling"
    /\ IF stock_data = <<>>
       THEN UNCHANGED <<snapshot, published_indicators, draws>>
       ELSE /\ snapshot' = [cycle |-> cycle_count, quotes |-> stock_data,
                            news |-> news_data, indicators |-> technical_data]
            /\ published_indicators' = technical_data
            /\ draws' = draws + 1
    /\ pc' = "Published"
    /\ UNCHANGED <<symbols, cycle_count, technical_data, stock_data, news_data,
                   quote_tasks, news_i, news_results, tech_tasks, inflight,
                   events, tech_updates, polled_cycle, received>>

\* terminal.draw(..)? returns Ok: the frame of {quotes, news, indicators}
\* has been handed over.
Draw ==
    /\ pc = "Assembling"
    /\ snapshot' = [cycle |-> cycle_count, quotes |-> stock_data,
                    news |-> news_data, indicators |-> technical_data]
    /\ published_indicators' = technical_data
    /\ draws' = draws + 1
    /\ pc' = "Published"
    /\ UNCHANGED <<symbols, cycle_count, technical_data, stock_data, news_data,
                   quote_tasks, news_i, news_results, tech_tasks, inflight,
                   events, tech_updates, polled_cycle,
                   received>>

\* terminal.draw(..)? returns Err.
DrawFails ==
    /\ pc = "Assembling"
    /\ Abort

\* IsQuit that looks for the capital letter.
IsQuitUpper(event) == event = "Key(Q)"

\* Whether the event read makes the loop break.
IsQuit(event) == event = KeyQ

\* Poll that reads every pending event and breaks when one is the key 'q'.
PollDrainsQueue ==
    /\ pc = "Published"
    /\ events' = <<>>
    /\ pc' = IF \E k \in DOMAIN events : IsQuit(events[k]) THEN "Terminated" ELSE "Waiting"
    /\ polled_cycle' = cycle_count
    /\ DropCycleLocals
    /\ UNCHANGED <<symbols, cycle_count, technical_data, inflight,
                   published_indicators, tech_updates, draws>>

\* if event::poll(100ms)? { if let Event::Key(key) = event::read()? { .. } }
\* With no event in the queue the poll times out; otherwise one event is
\* read, and the loop breaks when it is the key 'q'.
Poll ==
    /\ pc = "Published"
    /\ IF events = <<>>
       THEN /\ pc' = "Waiting"
            /\ UNCHANGED events
       ELSE /\ events' = Tail(events)
            /\ pc' = IF IsQuit(Head(events)) THEN "Terminated" ELSE "Waiting"
    /\ polled_cycle' = cycle_count
    /\ DropCycleLocals
    /\ UNCHANGED <<symbols, cycle_count, technical_data, inflight,
                   published_indicators, tech_updates, draws>>

\* event::poll(..)? or event::read()? returns Err.
PollFails ==
    /\ pc = "Published"
    /\ Abort

\* The user presses a key or moves the mouse: the terminal queues the event.
UserInput(event) ==
    /\ pc \notin {"Terminated", "Aborted"}
    /\ Len(events) < MaxPending
    /\ events' = Append(events, event)
    /\ UNCHANGED <<pc, symbols, cycle_count, technical_data, stock_data,
                   news_data, quote_tasks, news_i, news_results, tech_tasks,
                   inflight, snapshot, published_indicators, tech_updates,
                   draws, polled_cycle,
                   received>>

Next ==
    \/ Tick
    \/ \E i \in Indices : \E r \in QuoteResponses : QuoteSettles(i, r)
    \/ QuotesJoined
    \/ EvaluateTrigger
    \/ \E r \in NewsResponses : NewsSettles(r)
    \/ NewsReturns
    \/ \E i \in Indices : \E r \in SubResponses(tech_tasks[i].step) : IndicatorSettles(i, r)
    \/ IndicatorsJoined
    \/ Draw
    \/ DrawFails
    \/ Poll
    \/ PollFails
    \/ \E e \in InputEvents : UserInput(e)

Spec == Init /\ [][Next]_vars

(***************************************************************************)
(* fetch_relevant_news on its own: from its call, with any quote results   *)
(* of the first cycle, to its return.                                      *)
(***************************************************************************)
TriggerCloses == { -5, 0, 100, 104, 107, 110 }
TriggerPoints == { Pt(c) : c \in TriggerCloses } \cup { NoClose }

TriggerQuoteResponses ==
    { Err, Ok(NoValues), Ok(Series(<<>>)) }
    \cup { Ok(Series(<<a>>)) : a \in TriggerPoints }
    \cup { Ok(Series(<<a, b>>)) : a \in TriggerPoints, b \in TriggerPoints }
    \cup { Ok(Series(<<a, b, Pt(100)>>)) : a \in {Pt(110), Pt(104)}, b \in {Pt(100), Pt(0)} }

TriggerInit ==
    /\ pc = "EvaluatingTriggers"
    /\ symbols = STOCK_SYMBOLS
    /\ cycle_count = 1
    /\ technical_data = <<>>
    /\ quote_tasks \in [Indices -> { DoneTask(r) : r \in TriggerQuoteResponses }]
    /\ stock_data = CollectQuotes(symbols, quote_tasks)
    /\ news_data = <<>>
    /\ news_i = 1
    /\ news_results = <<>>
    /\ tech_tasks = [i \in Indices |-> IdleTech]
    /\ inflight = {}
    /\ events = <<>>
    /\ snapshot = NoSnapshot
    /\ published_indicators = <<>>
    /\ tech_updates = 0
    /\ draws = 0
    /\ polled_cycle = 0
    /\ received = { Answer(QuoteReq(symbols[i], 1), quote_tasks[i].result) : i \in Indices }

TriggerNext ==
    \/ EvaluateTrigger
    \/ \E r \in NewsResponses : NewsSettles(r)
    \/ NewsReturns

TriggerSpec == TriggerInit /\ [][TriggerNext]_vars

(***************************************************************************)
(* Properties.                                                             *)
(***************************************************************************)
\* The indicator sets a map holds for a symbol: none or one.
IndicatorsOf(map, symbol) ==
    { map[k].indicators : k \in { j \in 1..Len(map) : map[j].symbol = symbol } }

\* The requests of one kind on the wire.
InFlightOf(kind) == { r \in inflight : r.kind = kind }

\* PercentChange = (latest.close - previous.close) / previous.close * 100 of
\* a series with two points and a positive previous close is above 7, in
\* exact arithmetic.
RisesAboveThreshold(data) ==
    /\ data.is_array
    /\ Len(data.values) > 1
    /\ data.values[1].parsed /\ data.values[2].parsed
    /\ data.values[2].close > 0
    /\ 100 * (data.values[1].close - data.values[2].close) > 7 * data.values[2].close

\* The step in which technical_data is assigned the result of a wave.
RefreshStep == pc = "RefreshingIndicators" /\ pc' = "Assembling"

\* The step in which a frame is drawn.
DrawStep == pc = "Assembling" /\ pc' = "Published"

\* C1: on a refresh cycle, an instrument whose indicator fetch fails while
\* it has an IndicatorSet of an earlier refresh keeps that set: the map
\* after the refresh holds the instrument with its prior values.
C1_FailedRefreshRetainsPrevious ==
    [][ RefreshStep =>
          \A i \in Indices :
             (tech_tasks[i].failed /\ IndicatorsOf(technical_data, symbols[i]) # {})
                => IndicatorsOf(technical_data', symbols[i])
                     = IndicatorsOf(technical_data, symbols[i]) ]_vars

\* C2: in a cycle whose counter is no multiple of 10 the frame carries the
\* indicator map of the frame before it, technical_data is assigned in the
\* cycles whose counter is a multiple of 10 and in no other, and so once
\* in any 10 consecutive cycles.
C2_IndicatorsFrozenBetweenRefreshes ==
    /\ [][ (DrawStep /\ cycle_count % 10 # 0)
              => snapshot'.indicators = published_indicators ]_vars
    /\ [][ ((technical_data' # technical_data /\ pc' # "Aborted")
              \/ tech_updates' # tech_updates)
              => cycle_count % 10 = 0 ]_vars
    /\ [](pc \in {"Assembling", "Published"} => tech_updates = cycle_count \div 10)

\* C2's case: a frame of a cycle that is no refresh cycle carries the
\* indicators of the refresh before it.
C2_Witness ==
    /\ pc = "Published"
    /\ cycle_count = 11
    /\ snapshot.indicators # <<>>
    /\ tech_updates = 1

\* C3: a news request is on the wire for an instrument only if the quote
\* series fetched for it in this cycle rises by more than 7 percent: never
\* for an unflagged instrument, a failed quote fetch or an earlier cycle's
\* quotes.
C3_NewsOnlyForSameCycleRise ==
    \A r \in InFlightOf("news") :
       /\ r.cycle = cycle_count
       /\ \E i \in Indices :
             /\ symbols[i] = r.symbol
             /\ quote_tasks[i].settled /\ quote_tasks[i].result.ok
             /\ RisesAboveThreshold(quote_tasks[i].result.json)

\* C4: the quote map of a cycle holds exactly the instruments whose fetch
\* succeeded in it, each with its own response; the tracked symbols never
\* change; and every tick requests the quotes of every tracked symbol,
\* whatever failed before.
C4_FailedQuoteDropsOnlyThatInstrument ==
    /\ [](symbols = STOCK_SYMBOLS)
    /\ [](pc \in {"EvaluatingTriggers", "FetchingNews", "RefreshingIndicators",
                  "Assembling", "Published"}
            => \A i \in Indices :
                  IF quote_tasks[i].result.ok
                  THEN \E k \in 1..Len(stock_data) :
                          /\ stock_data[k].symbol = symbols[i]
                          /\ stock_data[k].data = quote_tasks[i].result.json
                  ELSE \A k \in 1..Len(stock_data) : stock_data[k].symbol # symbols[i])
    /\ [][ cycle_count' # cycle_count
              => \A i \in Indices : QuoteReq(STOCK_SYMBOLS[i], cycle_count') \in inflight' ]_vars

\* C4's case: in the second cycle the first symbol's fetch failed and the
\* frame holds the second symbol alone.
C4_Witness ==
    /\ pc = "Published"
    /\ cycle_count = 2
    /\ ~quote_tasks[1].result.ok
    /\ Len(snapshot.quotes) = 1
    /\ snapshot.quotes[1].symbol = STOCK_SYMBOLS[2]

\* C5: when the quit check that follows a frame reads the quit key, the
\* loop is Terminated, and from then on no request is on the wire and
\* the cycle counter stays.
C5_QuitObservedStopsLoop ==
    /\ [][ (pc = "Published" /\ events # <<>> /\ Head(events) = KeyQ
              /\ polled_cycle' # polled_cycle)
              => pc' = "Terminated" ]_vars
    /\ [][ pc = "Terminated"
              => (pc' = "Terminated" /\ cycle_count' = cycle_count
                    /\ inflight = {} /\ inflight' = {}) ]_vars

\* C5's case: the loop was quit after its third cycle.
C5_Witness ==
    /\ pc = "Terminated"
    /\ cycle_count = 3
    /\ polled_cycle = 3

\* C6: the loop is Terminated only by the quit check reading the quit key;
\* no step of a wave, whatever fails in it, ends the loop; and whenever the
\* loop waits for a tick, every cycle so far has drawn its frame and run
\* its quit check.
C6_OnlyQuitTerminates ==
    /\ [][ (pc' = "Terminated" /\ pc # "Terminated")
              => (pc = "Published" /\ events # <<>> /\ Head(events) = KeyQ) ]_vars
    /\ [][ (pc \in {"FetchingQuotes", "EvaluatingTriggers", "FetchingNews",
                    "RefreshingIndicators"})
              => (pc' # "Terminated" /\ pc' # "Aborted") ]_vars
    /\ [](pc = "Waiting" => (draws = cycle_count /\ polled_cycle = cycle_count))

\* C6's case: in a refresh cycle every quote fetch and every indicator
\* fetch failed, and the frame was drawn.
C6_Witness ==
    /\ pc = "Published"
    /\ cycle_count = TECH_UPDATE_INTERVAL
    /\ \A i \in Indices : ~quote_tasks[i].result.ok /\ tech_tasks[i].failed
    /\ snapshot.cycle = cycle_count
    /\ snapshot.quotes = <<>>
    /\ snapshot.indicators = <<>>

\* C7: every request on the wire belongs to the current cycle, and a cycle
\* begins only when nothing is on the wire and the cycle before it has
\* drawn its frame and run its quit check.
C7_CyclesDoNotOverlap ==
    /\ [](\A r \in inflight : r.cycle = cycle_count)
    /\ [][ cycle_count' # cycle_count
              => (inflight = {} /\ draws = cycle_count /\ polled_cycle = cycle_count) ]_vars

\* C7's case: the quote requests of the second cycle are on the wire.
C7_Witness ==
    /\ pc = "FetchingQuotes"
    /\ cycle_count = 2
    /\ Cardinality(InFlightOf("quote")) = 2

\* C8: triggers are evaluated and news is requested only when every quote
\* fetch of the cycle has settled, and a frame is drawn only when nothing
\* is on the wire: every quote, every news and, on a refresh cycle, every
\* indicator fetch has settled.
C8_WavesAreBarriers ==
    /\ []((pc \in {"EvaluatingTriggers", "FetchingNews"} \/ InFlightOf("news") # {})
            => (InFlightOf("quote") = {} /\ \A i \in Indices : quote_tasks[i].settled))
    /\ [][ DrawStep
              => /\ inflight = {}
                 /\ \A i \in Indices : quote_tasks[i].settled
                 /\ news_i > Len(stock_data)
                 /\ (cycle_count % 10 = 0
                       => \A i \in Indices : tech_tasks[i].step > NumSubIndicators) ]_vars

\* C8's case: the frame of a refresh cycle with news and indicators.
C8_Witness ==
    /\ pc = "Published"
    /\ cycle_count = TECH_UPDATE_INTERVAL
    /\ snapshot.news # <<>>
    /\ Len(snapshot.indicators) = 2

\* C9 as claimed: in each wave every request of the wave is on the wire
\* before the wave waits for any: all quote requests, the news requests of
\* all flagged instruments, and all five sub-indicator requests of every
\* instrument.
C9_EveryWaveFullyParallel ==
    /\ (pc = "FetchingQuotes" /\ \A i \in Indices : ~quote_tasks[i].settled)
          => \A i \in Indices : QuoteReq(symbols[i], cycle_count) \in inflight
    /\ pc = "FetchingNews"
          => \A k \in news_i..Len(stock_data) :
                TriggerFlags(stock_data[k].data)
                   => NewsReq(stock_data[k].symbol, cycle_count) \in inflight
    /\ (pc = "RefreshingIndicators" /\ \A i \in Indices : tech_tasks[i].step = 1)
          => \A i \in Indices : \A k \in 1..NumSubIndicators :
                TechReq(symbols[i], k, cycle_count) \in inflight

\* C9 as amended: the quote wave has the request of every unsettled symbol
\* on the wire at once; the indicator wave has, for every symbol whose
\* future is not done, exactly the one sub-indicator call it waits for; and
\* the news requests go out one at a time, in the order of the quotes.
C9_WavesParallelAcrossInstruments ==
    /\ pc = "FetchingQuotes"
          => InFlightOf("quote") =
                { QuoteReq(symbols[i], cycle_count) :
                     i \in { j \in Indices : ~quote_tasks[j].settled } }
    /\ pc = "RefreshingIndicators"
          => InFlightOf("indicator") =
                { TechReq(symbols[i], tech_tasks[i].step, cycle_count) :
                     i \in { j \in Indices : tech_tasks[j].step <= NumSubIndicators } }
    /\ Cardinality(InFlightOf("news")) <= 1
    /\ pc = "FetchingNews"
          => inflight = { NewsReq(stock_data[news_i].symbol, cycle_count) }

\* C9's case: two instruments' indicator calls are on the wire at once,
\* each at its own sub-indicator.
C9_Witness ==
    /\ pc = "RefreshingIndicators"
    /\ TechReq(STOCK_SYMBOLS[1], 1, cycle_count) \in inflight
    /\ TechReq(STOCK_SYMBOLS[2], 3, cycle_count) \in inflight

\* C10: for an entry whose series has fewer than two points, or whose
\* previous close is at most 0, whatever the latest close, the turn of the
\* loop sends no news request, pushes no news and raises no error: the
\* loop goes on to the next entry.
C10_TriggerDeclines ==
    [][ (/\ pc = "EvaluatingTriggers"
         /\ news_i <= Len(stock_data)
         /\ LET data == stock_data[news_i].data
            IN  \/ ~data.is_array
                \/ Len(data.values) < 2
                \/ (data.values[2].parsed /\ data.values[2].close <= 0))
          => (/\ pc' = "EvaluatingTriggers"
              /\ news_i' = news_i + 1
              /\ inflight' = inflight
              /\ news_results' = news_results) ]_vars

\* C10's case: fetch_relevant_news has gone through a series of one point
\* and a series whose previous close is 0 with a latest close of 110, and
\* has requested nothing.
C10_Witness ==
    /\ pc = "EvaluatingTriggers"
    /\ news_i = 3
    /\ stock_data[1].data = Series(<<Pt(110)>>)
    /\ stock_data[2].data = Series(<<Pt(110), Pt(0)>>)
    /\ news_results = <<>>
    /\ inflight = {}

\* C11: for an entry whose series has two points and a previous close
\* above 0, the turn of the loop requests the news of the instrument if and
\* only if (latest.close - previous.close) / previous.close * 100 is above
\* 7: a rise from 100 to 110 is flagged, a rise from 100 to 104 is not.
C11_FlaggedIffAboveThreshold ==
    [][ (/\ pc = "EvaluatingTriggers"
         /\ news_i <= Len(stock_data)
         /\ LET data == stock_data[news_i].data
            IN  /\ data.is_array
                /\ Len(data.values) > 1
                /\ data.values[1].parsed /\ data.values[2].parsed
                /\ data.values[2].close > 0)
          => ((NewsReq(stock_data[news_i].symbol, cycle_count) \in inflight')
                <=> RisesAboveThreshold(stock_data[news_i].data)) ]_vars

\* Whether a request has been answered in the cycle under way, and the
\* response it was given.
Answered(req) == \E a \in received : a.req = req
AnswerTo(req) == (CHOOSE a \in received : a.req = req).resp

\* The instruments whose quote request of this cycle was answered with a
\* series that rises above the threshold.
FlaggedInCycle ==
    { i \in Indices :
        /\ Answered(QuoteReq(symbols[i], cycle_count))
        /\ AnswerTo(QuoteReq(symbols[i], cycle_count)).ok
        /\ RisesAboveThreshold(AnswerTo(QuoteReq(symbols[i], cycle_count)).json) }

\* The instruments whose news request of this cycle was answered with Ok.
NewsServedInCycle ==
    { i \in Indices :
        /\ Answered(NewsReq(symbols[i], cycle_count))
        /\ AnswerTo(NewsReq(symbols[i], cycle_count)).ok }

\* C12: once fetch_relevant_news has returned, the news map of the cycle
\* holds one entry for each instrument flagged in this cycle whose news
\* fetch of this cycle succeeded, with the response of that fetch, and
\* nothing else: a failed news fetch leaves the other entries as they are
\* and no entry comes from an earlier cycle. The frame carries this map.
C12_NewsMapFreshAndExact ==
    pc \in {"Assembling", "Published"} =>
       LET served == FlaggedInCycle \cap NewsServedInCycle
       IN  /\ Len(news_data) = Cardinality(served)
           /\ { news_data[k].symbol : k \in DOMAIN news_data }
                 = { symbols[i] : i \in served }
           /\ \A k \in DOMAIN news_data : \E i \in served :
                 news_data[k] = [symbol |-> symbols[i],
                                 news |-> AnswerTo(NewsReq(symbols[i], cycle_count)).json]
           /\ (pc = "Published" => snapshot.news = news_data)

(***************************************************************************)
(* fetch_technical_indicators on its own: the indicator wave of cycle 10,  *)
(* after a quote wave in which every fetch failed, from the moment the     *)
(* future of the last symbol has returned and that of the first symbol     *)
(* waits for its first response, with any body a provider can answer.      *)
(***************************************************************************)
WideFields == { FieldMissing, FieldText, FieldNumber(50) }

WideIndicatorResponses ==
    { IndErr, IndOk(NoLatest) } \cup { IndOk(IndicatorJson(<<f>>)) : f \in WideFields }

WideBbandsResponses ==
    { IndErr, IndOk(NoLatest) }
    \cup { IndOk(IndicatorJson(<<u, m, l>>)) : u \in WideFields, m \in WideFields, l \in WideFields }

WideSubResponses(k) ==
    IF k > NumSubIndicators THEN {}
    ELSE IF SubIndicators[k].indicator = "bbands" THEN WideBbandsResponses
    ELSE WideIndicatorResponses

\* The ways the future of the last symbol can have returned: Err at its
\* first call, or Ok after five answers.
ReturnedTechTasks ==
    { [task |-> TechTask(NumSubIndicators + 1, TRUE, <<>>),
       answers |-> << IndErr >>],
      [task |-> TechTask(NumSubIndicators + 1, FALSE,
                         << <<50>>, <<50>>, <<50>>, <<50>>, <<60>>, <<50>>, <<40>> >>),
       answers |-> << IndOk(IndicatorJson(<<FieldNumber(50)>>)),
                      IndOk(IndicatorJson(<<FieldNumber(50)>>)),
                      IndOk(IndicatorJson(<<FieldNumber(50)>>)),
                      IndOk(IndicatorJson(<<FieldNumber(50)>>)),
                      IndOk(IndicatorJson(<<FieldNumber(60), FieldNumber(50), FieldNumber(40)>>)) >>] }

IndicatorInit ==
    /\ pc = "RefreshingIndicators"
    /\ symbols = STOCK_SYMBOLS
    /\ cycle_count = TECH_UPDATE_INTERVAL
    /\ technical_data = <<>>
    /\ stock_data = <<>>
    /\ news_data = <<>>
    /\ quote_tasks = [i \in Indices |-> DoneTask(Err)]
    /\ news_i = 1
    /\ news_results = <<>>
    /\ events = <<>>
    /\ snapshot = NoSnapshot
    /\ published_indicators = <<>>
    /\ tech_updates = 0
    /\ draws = TECH_UPDATE_INTERVAL - 1
    /\ polled_cycle = TECH_UPDATE_INTERVAL - 1
    /\ inflight = { TechReq(symbols[1], 1, cycle_count) }
    /\ \E last \in ReturnedTechTasks :
          /\ tech_tasks = [i \in Indices |->
                             IF i = Len(symbols) THEN last.task
                             ELSE TechTask(1, FALSE, <<>>)]
          /\ received =
                { Answer(QuoteReq(symbols[i], cycle_count), Err) : i \in Indices }
                \cup { Answer(TechReq(symbols[Len(symbols)], k, cycle_count), last.answers[k]) :
                          k \in 1..Len(last.answers) }

IndicatorNext ==
    \/ \E i \in Indices : \E r \in WideSubResponses(tech_tasks[i].step) : IndicatorSettles(i, r)
    \/ IndicatorsJoined
    \/ Draw

IndicatorSpec == IndicatorInit /\ [][IndicatorNext]_vars

\* The parseable value a response holds for field j of its newest element:
\* <<v>>, or <<>> when it holds none.
ParseableValue(json, j) ==
    IF json.has_latest /\ json.fields[j].kind = "number"
    THEN << json.fields[j].num >>
    ELSE <<>>

\* The instruments whose five sub-indicator requests of this cycle were all
\* answered with Ok.
IndicatorsServedInCycle ==
    { i \in Indices : \A k \in 1..NumSubIndicators :
        /\ Answered(TechReq(symbols[i], k, cycle_count))
        /\ AnswerTo(TechReq(symbols[i], k, cycle_count)).ok }

\* The body of the answer to sub-indicator request k of instrument i.
SubAnswer(i, k) == AnswerTo(TechReq(symbols[i], k, cycle_count)).json

\* C13: after the indicator wave, every instrument whose five requests were
\* answered has an IndicatorSet, and each of its fields is unset when the
\* response of its sub-indicator holds no parseable value for it and is
\* that parseable value otherwise, whatever the other responses hold.
C13_SubIndicatorsIndependentlyOptional ==
    pc \in {"Assembling", "Published"} =>
       \A i \in IndicatorsServedInCycle :
          /\ Cardinality(IndicatorsOf(technical_data, symbols[i])) = 1
          /\ \A t \in IndicatorsOf(technical_data, symbols[i]) :
                /\ t.sma50 = ParseableValue(SubAnswer(i, 1), 1)
                /\ t.sma200 = ParseableValue(SubAnswer(i, 2), 1)
                /\ t.rsi = ParseableValue(SubAnswer(i, 3), 1)
                /\ t.macd = ParseableValue(SubAnswer(i, 4), 1)
                /\ t.bb_upper = ParseableValue(SubAnswer(i, 5), 1)
                /\ t.bb_middle = ParseableValue(SubAnswer(i, 5), 2)
                /\ t.bb_lower = ParseableValue(SubAnswer(i, 5), 3)

\* C14: a frame is handed to terminal.draw once in every cycle that reaches
\* its quit check: the count of frames is one behind the cycle counter
\* from the tick to the end of the waves and level with it from the draw
\* on; the frame is drawn with nothing on the wire and holds the quotes,
\* news and indicators of the cycle; and the quit check of a cycle runs
\* with that cycle's frame drawn. This is so whatever the fetches return.
C14_OneSnapshotPerCycle ==
    /\ [](pc \in {"FetchingQuotes", "EvaluatingTriggers", "FetchingNews",
                  "RefreshingIndicators", "Assembling"}
            => draws = cycle_count - 1)
    /\ [](pc \in {"Published", "Waiting", "Terminated"} => draws = cycle_count)
    /\ [](pc = "Published" => snapshot.cycle = cycle_count)
    /\ [][ draws' # draws
              => /\ draws' = draws + 1
                 /\ pc = "Assembling" /\ pc' = "Published"
                 /\ inflight = {}
                 /\ polled_cycle = cycle_count - 1
                 /\ snapshot' = [cycle |-> cycle_count, quotes |-> stock_data,
                                 news |-> news_data, indicators |-> technical_data] ]_vars
    /\ [][ polled_cycle' # polled_cycle
              => /\ pc = "Published"
                 /\ polled_cycle' = cycle_count
                 /\ draws = cycle_count ]_vars

\* C14's case: the frame of a refresh cycle in which every fetch failed.
C14_Witness ==
    /\ pc = "Published"
    /\ cycle_count = TECH_UPDATE_INTERVAL
    /\ draws = TECH_UPDATE_INTERVAL
    /\ Cardinality(received) = 2 * Len(STOCK_SYMBOLS)
    /\ \A a \in received : ~a.resp.ok
    /\ snapshot = [cycle |-> cycle_count, quotes |-> <<>>, news |-> <<>>,
                   indicators |-> <<>>]

\* The frame as a function of the inputs of the cycle alone: its counter,
\* the indicator map carried over and the responses given to its requests.
SnapshotOf(cycle, carried, answers) ==
    LET Q(i) == QuoteReq(symbols[i], cycle)
        N(i) == NewsReq(symbols[i], cycle)
        T(i, k) == TechReq(symbols[i], k, cycle)
        Body(req) == (CHOOSE a \in answers : a.req = req).resp.json
        Served(req) == \E a \in answers : a.req = req /\ a.resp.ok
        Pos(P(_)) == SelectSeq([i \in 1..Len(symbols) |-> i], P)
        q == Pos(LAMBDA i : Served(Q(i)))
        n == Pos(LAMBDA i : Served(N(i)))
        t == Pos(LAMBDA i : \A k \in 1..NumSubIndicators : Served(T(i, k)))
    IN  [cycle |-> cycle,
         quotes |-> [k \in 1..Len(q) |-> [symbol |-> symbols[q[k]], data |-> Body(Q(q[k]))]],
         news |-> [k \in 1..Len(n) |-> [symbol |-> symbols[n[k]], news |-> Body(N(n[k]))]],
         indicators |->
            IF cycle % TECH_UPDATE_INTERVAL = 0
            THEN [k \in 1..Len(t) |->
                    [symbol |-> symbols[t[k]],
                     indicators |->
                        [sma50 |-> IndicatorValue(Body(T(t[k], 1))),
                         sma200 |-> IndicatorValue(Body(T(t[k], 2))),
                         rsi |-> IndicatorValue(Body(T(t[k], 3))),
                         macd |-> IndicatorValue(Body(T(t[k], 4))),
                         bb_upper |-> BandValue(Body(T(t[k], 5)), 1),
                         bb_middle |-> BandValue(Body(T(t[k], 5)), 2),
                         bb_lower |-> BandValue(Body(T(t[k], 5)), 3)]]]
            ELSE carried]

\* C15: the frame of a cycle is a function of the cycle counter, the
\* indicator map carried over from the frame before and the responses the
\* providers gave in the cycle, in whatever order the fetches of a wave
\* completed: two cycles with the same inputs draw equal frames.
C15_SnapshotDeterminedByInputs ==
    [][ DrawStep => snapshot' = SnapshotOf(cycle_count, published_indicators, received) ]_vars

\* C15's case: the frame of a refresh cycle with quotes, news and
\* indicators of both instruments, which the fetches reach in any order.
C15_Witness ==
    /\ pc = "Published"
    /\ cycle_count = TECH_UPDATE_INTERVAL
    /\ Len(snapshot.quotes) = 2
    /\ Len(snapshot.news) = 2
    /\ Len(snapshot.indicators) = 2

\* C16: the quotes of every frame drawn hold tracked instruments only, in
\* the order of the tracked list and so each at most once, and a tracked
\* instrument is missing from them exactly when its quote request of the
\* cycle was answered with a failure.
C16_QuotesOnePerInstrumentInOrder ==
    pc = "Published" =>
       /\ \A k \in DOMAIN snapshot.quotes :
             \E i \in Indices : snapshot.quotes[k].symbol = STOCK_SYMBOLS[i]
       /\ \A k \in DOMAIN snapshot.quotes : \A l \in DOMAIN snapshot.quotes :
             k < l => \E i \in Indices : \E j \in Indices :
                         /\ i < j
                         /\ snapshot.quotes[k].symbol = STOCK_SYMBOLS[i]
                         /\ snapshot.quotes[l].symbol = STOCK_SYMBOLS[j]
       /\ \A i \in Indices :
             (\A k \in DOMAIN snapshot.quotes : snapshot.quotes[k].symbol # STOCK_SYMBOLS[i])
                <=> (/\ Answered(QuoteReq(STOCK_SYMBOLS[i], cycle_count))
                     /\ ~AnswerTo(QuoteReq(STOCK_SYMBOLS[i], cycle_count)).ok)

\* C16's case: the frame holds the quotes of both instruments, each with
\* its own series.
C16_Witness ==
    /\ pc = "Published"
    /\ Len(snapshot.quotes) = 2
    /\ snapshot.quotes[1].data # snapshot.quotes[2].data

\* C17: the counter is 1 in the first cycle; indicator requests are sent
\* in a cycle, as the last wave before the frame, if and only if its
\* counter is a multiple of 10, every request on the wire is of the cycle
\* under way, and the frames of cycles 1 to 9 carry no indicators.
C17_IndicatorWaveEveryTenthCycle ==
    /\ [][ cycle_count' # cycle_count
              => (pc = "Waiting" /\ cycle_count' = cycle_count + 1) ]_vars
    /\ [](pc = "Waiting" \/ cycle_count >= 1)
    /\ [](\A r \in inflight : r.cycle = cycle_count)
    /\ [](InFlightOf("indicator") # {} => cycle_count % 10 = 0)
    /\ [][ (pc = "EvaluatingTriggers" /\ pc' \in {"RefreshingIndicators", "Assembling"})
              => IF cycle_count % 10 = 0
                 THEN /\ pc' = "RefreshingIndicators"
                      /\ \A i \in Indices : TechReq(symbols[i], 1, cycle_count) \in inflight'
                 ELSE pc' = "Assembling" /\ InFlightOf("indicator")' = {} ]_vars
    /\ [](pc = "Published" /\ cycle_count < 10 => snapshot.indicators = <<>>)

\* C17's case: the indicator wave of cycle 20 is under way, after those of
\* cycle 10 alone.
C17_Witness ==
    /\ pc = "RefreshingIndicators"
    /\ cycle_count = 2 * TECH_UPDATE_INTERVAL
    /\ tech_updates = 1
    /\ InFlightOf("indicator") # {}

\* C18: the assignment of a refresh cycle leaves technical_data with one
\* entry for each instrument whose five sub-indicator requests of this
\* wave were all answered with Ok, in the order of the tracked list, and
\* with no other entry, whatever it held before; and once a sub-indicator
\* request of an instrument is answered with a failure, no later
\* sub-indicator request of that instrument is sent in the wave.
C18_IndicatorMapReplacedBySuccesses ==
    /\ [][ RefreshStep =>
             /\ Len(technical_data') = Cardinality(IndicatorsServedInCycle)
             /\ \A i \in Indices :
                   (i \in IndicatorsServedInCycle)
                      <=> (\E k \in DOMAIN technical_data' :
                              technical_data'[k].symbol = symbols[i])
             /\ \A k \in DOMAIN technical_data' : \A l \in DOMAIN technical_data' :
                   k < l => \E i \in Indices : \E j \in Indices :
                               /\ i < j
                               /\ technical_data'[k].symbol = symbols[i]
                               /\ technical_data'[l].symbol = symbols[j] ]_vars
    /\ [](\A i \in Indices : \A k \in 1..NumSubIndicators :
             (/\ Answered(TechReq(symbols[i], k, cycle_count))
              /\ ~AnswerTo(TechReq(symbols[i], k, cycle_count)).ok)
                => \A l \in (k + 1)..NumSubIndicators :
                      /\ TechReq(symbols[i], l, cycle_count) \notin inflight
                      /\ ~Answered(TechReq(symbols[i], l, cycle_count)))
    /\ [](pc \in {"Assembling", "Published"} /\ cycle_count % 10 = 0
             => \A i \in Indices : \E k \in 1..NumSubIndicators :
                   /\ Answered(TechReq(symbols[i], k, cycle_count))
                   /\ (k < NumSubIndicators
                         => ~AnswerTo(TechReq(symbols[i], k, cycle_count)).ok)
                   /\ \A l \in 1..(k - 1) :
                         /\ Answered(TechReq(symbols[i], l, cycle_count))
                         /\ AnswerTo(TechReq(symbols[i], l, cycle_count)).ok)

\* C18's case: in cycle 20 the third request of the second instrument
\* failed, and the map that held both instruments after cycle 10 now holds
\* the first alone.
C18_Witness ==
    /\ pc = "Assembling"
    /\ cycle_count = 2 * TECH_UPDATE_INTERVAL
    /\ Len(published_indicators) = 2
    /\ Answered(TechReq(STOCK_SYMBOLS[2], 3, cycle_count))
    /\ ~AnswerTo(TechReq(STOCK_SYMBOLS[2], 3, cycle_count)).ok
    /\ Len(technical_data) = 1
    /\ technical_data[1].symbol = STOCK_SYMBOLS[1]

\* C19: the quit check runs once in a cycle and takes at most the one
\* event at the head of the queue, which nothing else removes; the loop
\* ends in that step exactly when the event is the key 'q', and goes on to
\* wait for the next tick when it is any other event or the queue is
\* empty. An event behind k others is therefore read no earlier than the
\* k-th quit check after.
C19_QuitCheckReadsOneEvent ==
    /\ [][ polled_cycle' # polled_cycle
              => /\ pc = "Published"
                 /\ polled_cycle' = polled_cycle + 1
                 /\ events' = (IF events = <<>> THEN <<>> ELSE Tail(events))
                 /\ pc' = (IF events # <<>> /\ Head(events) = KeyQ
                           THEN "Terminated" ELSE "Waiting") ]_vars
    /\ [][ (\A e \in InputEvents : events' # Append(events, e)) /\ events' # events
              => polled_cycle' # polled_cycle ]_vars
    /\ [][ (pc' = "Terminated" /\ pc # "Terminated")
              => polled_cycle' # polled_cycle ]_vars

\* C19's case: the quit check of cycle 2 has read the key 'q' and ended the
\* loop, leaving the mouse event behind it unread.
C19_Witness ==
    /\ pc = "Terminated"
    /\ cycle_count = 2
    /\ polled_cycle = 2
    /\ events = << "Mouse" >>

(***************************************************************************)
(* The last cycles of the run loop under fairness: the tick fires, every   *)
(* request on the wire is answered, and main takes its next step when it   *)
(* can. The user is under no obligation to press a key.                    *)
(***************************************************************************)
\* A step of the program or of a provider: every step but the user's.
Progress ==
    \/ Tick
    \/ \E i \in Indices : \E r \in QuoteResponses : QuoteSettles(i, r)
    \/ QuotesJoined
    \/ EvaluateTrigger
    \/ \E r \in NewsResponses : NewsSettles(r)
    \/ NewsReturns
    \/ \E i \in Indices : \E r \in SubResponses(tech_tasks[i].step) : IndicatorSettles(i, r)
    \/ IndicatorsJoined
    \/ Draw
    \/ DrawFails
    \/ Poll
    \/ PollFails

\* Until the loop ends, main waits for one thing at a time (the tick, the
\* responses of a wave, the terminal), so that fairness of each of these
\* steps is fairness of their disjunction.
Fairness == WF_vars(Progress)

\* The loop two ticks before the last one the model takes: it waits for
\* the tick, the queue of events is empty, and technical_data holds what
\* a refresh gave in which every request was answered.
LiveCycles == 2

LiveInit ==
    /\ pc = "Waiting"
    /\ symbols = STOCK_SYMBOLS
    /\ cycle_count = MaxCycles - LiveCycles
    /\ technical_data =
          [k \in 1..Len(STOCK_SYMBOLS) |->
             [symbol |-> STOCK_SYMBOLS[k],
              indicators |-> TechnicalIndicators(
                 << <<50>>, <<50>>, <<50>>, <<50>>, <<60>>, <<50>>, <<40>> >>)]]
    /\ stock_data = <<>>
    /\ news_data = <<>>
    /\ quote_tasks = [i \in Indices |-> IdleTask]
    /\ news_i = 1
    /\ news_results = <<>>
    /\ tech_tasks = [i \in Indices |-> IdleTech]
    /\ inflight = {}
    /\ events = <<>>
    /\ snapshot = NoSnapshot
    /\ published_indicators = technical_data
    /\ tech_updates = (MaxCycles - LiveCycles) \div TECH_UPDATE_INTERVAL
    /\ draws = MaxCycles - LiveCycles
    /\ polled_cycle = MaxCycles - LiveCycles
    /\ received = {}

\* The events of the user in these cycles: the key 'q' and an event that
\* is no key press.
LiveInputEvents == { KeyQ, "Mouse" }

LiveNext ==
    \/ Progress
    \/ \E e \in LiveInputEvents : UserInput(e)

LiveSpec == LiveInit /\ [][LiveNext]_vars /\ Fairness

\* The key 'q' waits in the queue, and the cycles left within MaxCycles
\* are enough to read every event ahead of it.
QuitPending ==
    /\ \E k \in DOMAIN events : events[k] = KeyQ
    /\ cycle_count + Len(events) <= MaxCycles

\* C20 as claimed: every cycle that starts draws its frame and reaches its
\* quit check, and a pending key 'q' leads to the end of the loop.
C20_CyclesCompleteAndQuitEndsLoop ==
    /\ (pc = "FetchingQuotes") ~> (pc = "Published")
    /\ (pc = "Published") ~> (pc \in {"Waiting", "Terminated"})
    /\ QuitPending ~> (pc = "Terminated")

\* C20 as amended: every cycle that starts draws its frame and reaches its
\* quit check, and a pending key 'q' leads to the end of the loop, unless
\* terminal.draw, event::poll or event::read returns an error and main
\* returns with it.
C20_CyclesCompleteUnlessTerminalFails ==
    /\ (pc = "FetchingQuotes") ~> (pc \in {"Published", "Aborted"})
    /\ (pc = "Published") ~> (pc \in {"Waiting", "Terminated", "Aborted"})
    /\ QuitPending ~> (pc \in {"Terminated", "Aborted"})

\* C20's case: the loop has ended on the key 'q' in the last cycle, a
\* refresh cycle, and not in the cycle before it: with its frame drawn and
\* nothing on the wire.
C20_Witness ==
    /\ pc = "Terminated"
    /\ cycle_count = MaxCycles
    /\ draws = MaxCycles
    /\ polled_cycle = MaxCycles
    /\ inflight = {}

====
